---- MODULE Spec2Model ----
(***************************************************************************)
(* The log retrieval of the notebook "Requesting log details using the     *)
(* Insights API": insights_log_requests (polling the log search with       *)
(* backoff.on_predicate), request_response_reqs (fetching the request and  *)
(* response body of one log entry with backoff.on_exception) and           *)
(* request_response_bodies (the loop that assembles one record per entry). *)
(* The Insights service is the environment: every call of it returns one   *)
(* of the outcomes the service can produce.  SpecLogs and SpecBodies run   *)
(* the functions against every behaviour of the service, SpecSession runs  *)
(* the notebook from its first cell, and SpecConcurrent runs               *)
(* request_response_reqs in two tasks side by side.                        *)
(***************************************************************************)
EXTENDS Integers, Sequences, FiniteSets, TLC

(* ------------------------------ bounds -------------------------------- *)

\* The longest list of Log Entries the log search returns.
MaxValues == 3

\* The longest list of Log Entries request_response_bodies is given.
MaxRows == 2

\* The clock readings per second: datetime.now() is finer than the whole
\* seconds strftime keeps.
TicksPerSecond == 2

(* ------------------------- program constants -------------------------- *)

\* max_tries of backoff.on_predicate on insights_log_requests
LogMaxTries == 5
\* the 2 of the predicate  lambda x: len(x.values) < 2
ExpectedMinimumCount == 2
\* max_tries of backoff.on_exception on request_response_reqs
DetMaxTries == 5
\* the status request_response_bodies compares row.http_status_code with
ErrorStatus == 400

\* insights_log_requests("GetValuationOfWeightedInstruments", 5, 0)
TimestampDiffLower == 5
TimestampDiffUpper == 0
\* timedelta(minutes=...)
SecondsPerMinute == 60
\* backoff.expo: base and factor
ExpoBase == 2
ExpoFactor == 1

(* ------------------------------- state -------------------------------- *)

VARIABLES
    logPc,       \* insights_log_requests: "idle", "call", "done", "raised"
    logTries,    \* backoff's tries of the running invocation
    logCalls,    \* the outcomes of the list_request_logs calls of the invocation
    logResult,   \* the value returned (i_response.values), or None
    logError,    \* the exception raised to the caller
    logNow,      \* the clock, in ticks, as insights_log_requests sees it
    logFilter,   \* the filter of the latest attempt, or None
    logFirstFilter, \* the filter of the first attempt of the invocation, or None
    logSleep,    \* the sleep that followed the latest attempt, or None
    logPrev,     \* how the invocation before this one ended ("none": no such)
    store,       \* the request log of the service
    bodyStore,   \* the bodies the service holds, by identifier
    correlation_id, \* the correlation identifier of the session
    cell,        \* the cell of the notebook that runs next
    calls,       \* the calls the session has made, with the identifier each carried
    tasks,       \* calls of request_response_reqs run side by side, by task
    rrPc,        \* request_response_bodies: "idle", "loop", "fetching", "done", "raised"
    req_logs,    \* req_logs.values
    rowIdx,      \* the position of row in req_logs.values
    rr_bodies,   \* the list being built
    rrResult,    \* the list returned, or None
    rrError,     \* the exception raised to the caller
    req_resps,   \* the req_resp of every row assembled so far
    detLast,     \* how the latest finished request_response_reqs ended ("none": no such)
    detPc,       \* request_response_reqs: "idle", "request", "response", "done", "raised"
    detId,       \* its argument
    detTries,    \* backoff's tries of the running invocation
    detLog,      \* how each attempt of the invocation ended
    reqCalls,    \* get_request calls of the invocation
    respCalls,   \* get_response calls of the invocation
    detRequest,  \* the local variable request
    detResult,   \* the pair returned, or None
    detError,    \* the exception raised to the caller
    detSleep,    \* the sleep before the attempt about to start, or None
    detFetched   \* the bodies the calls of the running attempt returned

logVars == <<logPc, logTries, logCalls, logResult, logError,
             logNow, logFilter, logFirstFilter, logSleep, logPrev>>
rrVars == <<rrPc, req_logs, rowIdx, rr_bodies, rrResult, rrError, req_resps,
            detLast>>
detVars == <<detPc, detId, detTries, detLog, reqCalls, respCalls,
             detRequest, detResult, detError, detSleep, detFetched>>
envVars == <<store, bodyStore, correlation_id, cell, calls, tasks>>
vars == <<logVars, rrVars, detVars, envVars>>

(* ------------------------------ values -------------------------------- *)

\* Python's None, and a value that is not None.
None == <<>>
Some(v) == <<v>>

\* Exceptions.  ApiException is what the generated Insights client raises for
\* an HTTP error status; a TransportError is a failure below HTTP (connection
\* refused, timeout), which is no ApiException; KeyError is Python's failed
\* dict lookup.
NoError == [type |-> "none", status |-> 0, key |-> ""]
ApiException(s) == [type |-> "ApiException", status |-> s, key |-> ""]
TransportError == [type |-> "TransportError", status |-> 0, key |-> ""]
KeyError(k) == [type |-> "KeyError", status |-> 0, key |-> k]

\* The Log Entries the log search can return (row.id, row.timestamp,
\* row.outcome, row.http_status_code).
LogEntries ==
    { [id |-> "r0", timestamp |-> 10, outcome |-> "Success", http_status_code |-> 200],
      [id |-> "r1", timestamp |-> 11, outcome |-> "Success", http_status_code |-> 200],
      [id |-> "r2", timestamp |-> 12, outcome |-> "Failure", http_status_code |-> 400],
      [id |-> "r3", timestamp |-> 13, outcome |-> "Failure", http_status_code |-> 404] }

\* The identifiers the detail endpoints know: "r0" is an identifier that
\* corresponds to no stored request (a genuine not-found).
KnownIds == {"r1", "r2", "r3"}

\* The values str(uuid.uuid4()) can give.
Uuids == {"uuid-1", "uuid-2"}

\* The operations of the calls the notebook makes.
ValuationOperation == "GetValuationOfWeightedInstruments"
QuotesOperation == "UpsertQuotes"

\* The Log Entry with identifier id.
EntryById(id) == CHOOSE e \in LogEntries : e.id = id

\* The Log Entry of an upsert_quotes call.
QuotesEntry == [id |-> "q1", timestamp |-> 10, outcome |-> "Success",
                http_status_code |-> 200]

\* The request log of the service, shared by every session: a Log Entry with
\* the operation and the correlation identifier of the call it records.
\* Besides three valuations of this session it holds a valuation of another
\* session, another operation of this session, and a valuation of this
\* session from long ago.
StoreUniverse ==
    { [row |-> EntryById("r0"), operation |-> ValuationOperation,
       correlation |-> correlation_id],
      [row |-> EntryById("r1"), operation |-> ValuationOperation,
       correlation |-> correlation_id],
      [row |-> EntryById("r2"), operation |-> ValuationOperation,
       correlation |-> correlation_id],
      [row |-> EntryById("r3"), operation |-> ValuationOperation,
       correlation |-> "other-session"],
      [row |-> QuotesEntry,
       operation |-> QuotesOperation, correlation |-> correlation_id],
      [row |-> [id |-> "old", timestamp |-> -290, outcome |-> "Success",
                http_status_code |-> 200],
       operation |-> ValuationOperation, correlation |-> correlation_id] }

\* The clock (in ticks) when insights_log_requests is called: 20 s, and
\* 309.5 s, when the entry of second 10 is about to leave the window.
InvokeTimes == {20 * TicksPerSecond, 309 * TicksPerSecond + 1}

\* All sequences over S of length at most n.
SeqsUpTo(S, n) == UNION { [1..k -> S] : k \in 0..n }

\* The error-detail records of a response body.
Detail1 == [parameterId |-> "instruments", message |-> "must not be empty"]
Detail2 == [parameterId |-> "valuationDate", message |-> "invalid"]

\* Bodies as the service sends them: JSON text, a sequence of members
\* <<key, value>> in document order (a key may repeat).
RequestDocs ==
    { << <<"reportCurrency", "JPY">> >>,
      << <<"reportCurrency", "AUD">> >> }

ResponseDocs ==
    { << <<"data", "values">> >>,
      << <<"name", "InvalidParameterValue">>, <<"errorDetails", <<Detail1>> >> >>,
      << <<"name", "Other">>, <<"name", "InvalidParameterType">>,
         <<"errorDetails", <<Detail1, Detail2>> >> >>,
      << <<"errorDetails", <<Detail1>> >> >>,
      << <<"name", "InvalidParameterValue">> >> }

\* The request body of a get_valuation_of_weighted_instruments call reported
\* in currency.
ValuationRequest(currency) == << <<"reportCurrency", currency>> >>

\* The bodies the service holds when nothing is known of the answers it
\* gave: for every identifier it knows the request body of the call (in AUD
\* for r2, in JPY for the others) and any of the response documents.
AnyBodies ==
    [id \in KnownIds |->
        [request |-> {d \in RequestDocs :
                        d = ValuationRequest(IF id = "r2" THEN "AUD" ELSE "JPY")},
         response |-> ResponseDocs]]

\* The response bodies of the two valuations of the notebook.
ValuationData == << <<"data", "values">> >>
ValuationError ==
    << <<"name", "InvalidParameterValue">>, <<"errorDetails", <<Detail1>> >> >>

(* --------------------------- pure functions --------------------------- *)

\* json.loads of an object: a dict with the document's keys, a repeated key
\* keeping its last value.
JsonKeys(doc) == { doc[i][1] : i \in DOMAIN doc }

JsonLast(doc, k) ==
    CHOOSE i \in DOMAIN doc :
        /\ doc[i][1] = k
        /\ \A j \in DOMAIN doc : doc[j][1] = k => j <= i

JsonLoads(doc) == [k \in JsonKeys(doc) |-> doc[JsonLast(doc, k)][2]]

\* The predicate with its comparison off by one.
LogPredicate_OffByOne(values) == Len(values) <= ExpectedMinimumCount

\* strftime("%Y-%m-%dT%H:%M:%S"): the clock reading cut to whole seconds.
Strftime(t) == t \div TicksPerSecond

\* timedelta(minutes=m), in ticks
Timedelta(m) == m * SecondsPerMinute * TicksPerSecond

\* The filter naming an identifier other than the one the calls carried.
BuildFilter_StaleCorrelation(now, operation, timestamp_diff_lower, timestamp_diff_upper) ==
    [lower |-> Strftime(now - Timedelta(timestamp_diff_lower)),
     upper |-> Strftime(now - Timedelta(timestamp_diff_upper)),
     operation |-> operation,
     correlation |-> "other-session"]

\* The filter with the two ends of the window exchanged.
BuildFilter_SwappedDiffs(now, operation, timestamp_diff_lower, timestamp_diff_upper) ==
    [lower |-> Strftime(now - Timedelta(timestamp_diff_upper)),
     upper |-> Strftime(now - Timedelta(timestamp_diff_lower)),
     operation |-> operation,
     correlation |-> correlation_id]

\* The filter of one attempt, built from datetime.now(): timestamp gt ... and
\* timestamp lt ... and operation eq ... and CorrelationId eq ...  The two
\* readings of the clock of one attempt are taken at the same tick.
BuildFilter(now, operation, timestamp_diff_lower, timestamp_diff_upper) ==
    [lower |-> Strftime(now - Timedelta(timestamp_diff_lower)),
     upper |-> Strftime(now - Timedelta(timestamp_diff_upper)),
     operation |-> operation,
     correlation |-> correlation_id]

\* The service's reading of the filter.
Matches(filter, s) ==
    /\ s.row.timestamp > filter.lower
    /\ s.row.timestamp < filter.upper
    /\ s.operation = filter.operation
    /\ s.correlation = filter.correlation

\* The exponent one too high.
ExpoValue_OneAhead(n) == ExpoFactor * ExpoBase ^ n

\* backoff.expo: the n-th value it yields (n = 1, 2, ...), in seconds
ExpoValue(n) == ExpoFactor * ExpoBase ^ (n - 1)

\* backoff.full_jitter: random.uniform(0, value), in ticks; the two ends of
\* the range and, to leave the whole seconds, one tick.
FullJitter(value) == {0, 1, value * TicksPerSecond}

\* lambda x: len(x.values) < 2, the predicate that asks for another attempt
LogPredicate(values) == Len(values) < ExpectedMinimumCount

\* Giving up one attempt early.
LogGiveUp_Early(tries) == tries = LogMaxTries - 1

\* One attempt more than max_tries.
LogGiveUp_Late(tries) == tries > LogMaxTries

\* backoff: max_tries_exceeded = (tries == max_tries)
LogGiveUp(tries) == tries = LogMaxTries

\* Retrying on every exception, not only on ApiException.
DetRetryable_Any(e) == e.type \in {"ApiException", "TransportError"}

\* backoff.on_exception catches finbourne_insights.ApiException only
DetRetryable(e) == e.type = "ApiException"

\* Giving up one attempt early.
DetGiveUp_Early(tries) == tries = DetMaxTries - 1

DetGiveUp(tries) == tries = DetMaxTries

\* The status compared with <= instead of ==.
IsErrorStatus_AtMost(row) == row.http_status_code <= ErrorStatus

\* if row.http_status_code == 400
IsErrorStatus(row) == row.http_status_code = ErrorStatus

\* error = response_body["name"]: a KeyError when the key is missing
HasErrorName(response_body) == "name" \in DOMAIN response_body

ErrorName(response_body) == response_body["name"]

\* The error details in reverse order.
ErrorDetails_Reversed(response_body) ==
    LET ds == response_body["errorDetails"]
    IN  [k \in 1..Len(ds) |-> ds[Len(ds) + 1 - k]]

\* error_details = response_body["errorDetails"]
HasErrorDetails(response_body) == "errorDetails" \in DOMAIN response_body

ErrorDetails(response_body) == response_body["errorDetails"]

\* The request body returned in both places.
DetReturn_RequestTwice(request, response) == [request |-> request, response |-> request]

\* The pair returned the wrong way round.
DetReturn_Swapped(request, response) == [request |-> response, response |-> request]

\* return (request,response)
DetReturn(request, response) == [request |-> request, response |-> response]

\* An ApiException taken for an answer without entries, and so retried.
LogRaises_NotApi(r) == r.kind = "raise" /\ r.error.type /= "ApiException"

\* An exception of list_request_logs leaves insights_log_requests:
\* backoff.on_predicate catches none.
LogRaises(r) == r.kind = "raise"

\* The body of the loop of request_response_bodies after the two json.loads:
\* the record appended to rr_bodies, or the KeyError of response_body["name"]
\* or response_body["errorDetails"].
Assemble(row, request_body, response_body) ==
    IF IsErrorStatus(row) /\ ~HasErrorName(response_body)
    THEN [ok |-> FALSE, error |-> KeyError("name"), record |-> None]
    ELSE IF IsErrorStatus(row) /\ ~HasErrorDetails(response_body)
    THEN [ok |-> FALSE, error |-> KeyError("errorDetails"), record |-> None]
    ELSE [ok |-> TRUE, error |-> NoError,
          record |-> Some(
            [id |-> row.id,
             timestamp |-> row.timestamp,
             outcome |-> row.outcome,
             error |-> IF IsErrorStatus(row)
                       THEN Some(ErrorName(response_body)) ELSE None,
             error_details |-> IF IsErrorStatus(row)
                               THEN Some(ErrorDetails(response_body)) ELSE None,
             request_body |-> request_body,
             response_body |-> response_body])]

(* ------------------------- the Insights service ----------------------- *)

\* The sequences of SeqsUpTo(S, n) that hold no element twice.
Listings(S, n) ==
    { s \in SeqsUpTo(S, n) : \A i, j \in DOMAIN s : s[i] = s[j] => i = j }

\* i_requests_api.list_request_logs(filter=...): a list of Log Entries, or an
\* exception.  The list holds, in any order and each once, entries of the
\* request log st that match the filter: those the service has indexed by
\* the time of the call.
ListRequestLogsOutcomes(filter, st) ==
    { [kind |-> "ok", values |-> s, error |-> NoError] :
        s \in Listings({e.row : e \in {x \in st : Matches(filter, x)}}, MaxValues) }
    \cup { [kind |-> "raise", values |-> << >>, error |-> e] :
             e \in {ApiException(500), TransportError} }

\* i_requests_api.get_request(id) and get_response(id): the stored body, or
\* ApiException 404 (not indexed yet, or no such request), or ApiException
\* 500 (service failure), or a transport failure.  An identifier the service
\* does not know never gets a body.
GetOutcomes(id, docs) ==
    { [kind |-> "ok", doc |-> d, error |-> NoError] :
        d \in IF id \in KnownIds THEN docs ELSE {} }
    \cup { [kind |-> "raise", doc |-> << >>, error |-> e] :
             e \in {ApiException(404), ApiException(500), TransportError} }

\* How an attempt that returned both bodies is written in detLog.
AttemptOk == [type |-> "ok", status |-> 200, key |-> ""]

LogIdle ==
    /\ logPc = "idle"
    /\ logTries = 0
    /\ logCalls = << >>
    /\ logResult = None
    /\ logError = NoError
    /\ logNow = 0
    /\ logFilter = None
    /\ logFirstFilter = None
    /\ logSleep = None
    /\ logPrev = "none"

DetIdle ==
    /\ detPc = "idle"
    /\ detId = ""
    /\ detTries = 0
    /\ detLog = << >>
    /\ reqCalls = 0
    /\ respCalls = 0
    /\ detRequest = None
    /\ detResult = None
    /\ detError = NoError
    /\ detSleep = None
    /\ detFetched = << >>

RRIdle ==
    /\ rrPc = "idle"
    /\ req_logs = << >>
    /\ rowIdx = 0
    /\ rr_bodies = << >>
    /\ rrResult = None
    /\ rrError = NoError
    /\ req_resps = << >>
    /\ detLast = "none"

(* ---------------------- insights_log_requests ------------------------- *)

\* How a finished invocation of insights_log_requests ended: with an
\* exception, with a list the predicate rejects, or with one it accepts.
LogOutcome ==
    IF logPc = "idle" THEN "none"
    ELSE IF logPc = "raised" THEN "raised"
    ELSE IF Len(logResult[1]) < ExpectedMinimumCount THEN "short"
    ELSE "full"

\* The call with the attempt counter kept by the decorated function from one
\* call to the next.
LogInvoke_KeepTries ==
    /\ logPc \in {"idle", "done", "raised"}
    /\ logPc' = "call"
    /\ logTries' = logTries
    /\ logCalls' = << >>
    /\ logResult' = None
    /\ logError' = NoError
    /\ logNow' \in InvokeTimes
    /\ logFilter' = None
    /\ logFirstFilter' = None
    /\ logSleep' = None
    /\ logPrev' = LogOutcome
    /\ UNCHANGED <<rrVars, detVars, envVars>>

\* The call insights_log_requests("GetValuationOfWeightedInstruments", 5, 0)
\* at some time of the clock: backoff's retry wrapper starts with tries = 0
\* and a new wait generator, both local to the call.
LogInvoke ==
    /\ logPc \in {"idle", "done", "raised"}
    /\ logPc' = "call"
    /\ logTries' = 0
    /\ logCalls' = << >>
    /\ logResult' = None
    /\ logError' = NoError
    /\ logNow' \in InvokeTimes
    /\ logFilter' = None
    /\ logFirstFilter' = None
    /\ logSleep' = None
    /\ logPrev' = LogOutcome
    /\ UNCHANGED <<rrVars, detVars, envVars>>

\* One pass of backoff's loop: tries += 1, the body of the function (the
\* filter built from the clock, the call of list_request_logs), and what
\* follows: an exception leaves the function, a result the predicate accepts
\* is returned, a result it rejects is returned when tries has reached
\* max_tries and otherwise leads to time.sleep(full_jitter(next(expo))) and
\* the next pass.
LogAttempt ==
    /\ logPc = "call"
    /\ LET filter == BuildFilter(logNow, ValuationOperation,
                                 TimestampDiffLower, TimestampDiffUpper)
       IN  /\ logFilter' = Some(filter)
           /\ logFirstFilter' = IF logTries = 0 THEN Some(filter) ELSE logFirstFilter
           /\ \E r \in ListRequestLogsOutcomes(filter, store) :
                /\ logTries' = logTries + 1
                /\ logCalls' = Append(logCalls, r)
                /\ IF LogRaises(r)
                   THEN /\ logPc' = "raised"
                        /\ logError' = r.error
                        /\ logResult' = None
                        /\ logSleep' = None
                        /\ logNow' = logNow
                   ELSE IF LogPredicate(r.values) /\ ~LogGiveUp(logTries + 1)
                   THEN /\ logPc' = "call"
                        /\ \E ticks \in FullJitter(ExpoValue(logTries + 1)) :
                             /\ logSleep' = Some([value |-> ExpoValue(logTries + 1),
                                                  ticks |-> ticks])
                             /\ logNow' = logNow + ticks
                        /\ UNCHANGED <<logResult, logError>>
                   ELSE /\ logPc' = "done"
                        /\ logResult' = Some(r.values)
                        /\ logError' = NoError
                        /\ logSleep' = None
                        /\ logNow' = logNow
    /\ UNCHANGED <<logPrev, rrVars, detVars, envVars>>

(* ---------------------- request_response_reqs ------------------------- *)

\* What backoff.on_exception does with an exception e of the attempt: an
\* After a failure only the call that failed is made again, the request body
\* of the attempt being kept.
DetHandle_KeepRequest(e) ==
    /\ detLog' = Append(detLog, e)
    /\ detResult' = None
    /\ UNCHANGED <<detFetched, detRequest>>
    /\ IF DetRetryable(e) /\ ~DetGiveUp(detTries')
       THEN /\ detPc' = IF detRequest = None THEN "request" ELSE "response"
            /\ detError' = NoError
            /\ \E ticks \in FullJitter(ExpoValue(detTries')) :
                 detSleep' = Some([value |-> ExpoValue(detTries'),
                                   ticks |-> ticks])
       ELSE /\ detPc' = "raised"
            /\ detError' = e
            /\ detSleep' = None

\* ApiException below max_tries leads to time.sleep(full_jitter(next(expo)))
\* and the next attempt, anything else (another exception, or tries ==
\* max_tries) is raised.
DetHandle(e) ==
    /\ detLog' = Append(detLog, e)
    /\ detFetched' = << >>
    /\ detRequest' = None
    /\ detResult' = None
    /\ IF DetRetryable(e) /\ ~DetGiveUp(detTries')
       THEN /\ detPc' = "request"
            /\ detError' = NoError
            /\ \E ticks \in FullJitter(ExpoValue(detTries')) :
                 detSleep' = Some([value |-> ExpoValue(detTries'),
                                   ticks |-> ticks])
       ELSE /\ detPc' = "raised"
            /\ detError' = e
            /\ detSleep' = None

\* The bodies the service holds under an identifier.
StoredRequests(id) ==
    IF id \in DOMAIN bodyStore THEN bodyStore[id].request ELSE {}
StoredResponses(id) ==
    IF id \in DOMAIN bodyStore THEN bodyStore[id].response ELSE {}

\* The start of an attempt: tries += 1 and request = get_request(id).
DetGetRequest ==
    /\ detPc = "request"
    /\ detTries' = detTries + 1
    /\ reqCalls' = reqCalls + 1
    /\ \E o \in GetOutcomes(detId, StoredRequests(detId)) :
        IF o.kind = "ok"
        THEN /\ detRequest' = Some(o.doc)
             /\ detFetched' = <<o.doc>>
             /\ detPc' = "response"
             /\ detSleep' = None
             /\ UNCHANGED <<detLog, detResult, detError>>
        ELSE DetHandle(o.error)
    /\ UNCHANGED <<detId, respCalls, logVars, rrVars, envVars>>

\* response = get_response(id) and return (request, response).
DetGetResponse ==
    /\ detPc = "response"
    /\ respCalls' = respCalls + 1
    /\ detTries' = detTries
    /\ \E o \in GetOutcomes(detId, StoredResponses(detId)) :
        IF o.kind = "ok"
        THEN /\ detResult' = Some(DetReturn(detRequest[1], o.doc))
             /\ detFetched' = Append(detFetched, o.doc)
             /\ detPc' = "done"
             /\ detLog' = Append(detLog, AttemptOk)
             /\ detSleep' = None
             /\ UNCHANGED <<detRequest, detError>>
        ELSE DetHandle(o.error)
    /\ UNCHANGED <<detId, reqCalls, logVars, rrVars, envVars>>

(* --------------------- request_response_bodies ------------------------ *)

\* for row in req_logs.values: req_resp = request_response_reqs(row.id)
RRFetch ==
    /\ rrPc = "loop"
    /\ rowIdx <= Len(req_logs)
    /\ rrPc' = "fetching"
    /\ detPc' = "request"
    /\ detId' = req_logs[rowIdx].id
    /\ detTries' = 0
    /\ detLog' = << >>
    /\ reqCalls' = 0
    /\ respCalls' = 0
    /\ detRequest' = None
    /\ detResult' = None
    /\ detError' = NoError
    /\ detSleep' = None
    /\ detFetched' = << >>
    /\ UNCHANGED <<req_logs, rowIdx, rr_bodies, rrResult, rrError, req_resps, detLast>>
    /\ UNCHANGED <<logVars, envVars>>

\* The records kept by id, a record with the id of an earlier one taking its
\* place.
RRAssemble_ById ==
    /\ rrPc = "fetching"
    /\ detPc = "done"
    /\ LET a == Assemble(req_logs[rowIdx],
                         JsonLoads(detResult[1].request),
                         JsonLoads(detResult[1].response))
           seen == {i \in DOMAIN rr_bodies : rr_bodies[i].id = req_logs[rowIdx].id}
       IN  IF a.ok
           THEN /\ rr_bodies' = IF seen = {}
                                THEN Append(rr_bodies, a.record[1])
                                ELSE [rr_bodies EXCEPT ![CHOOSE i \in seen : TRUE] = a.record[1]]
                /\ req_resps' = IF seen = {}
                                THEN Append(req_resps, detResult[1])
                                ELSE [req_resps EXCEPT ![CHOOSE i \in seen : TRUE] = detResult[1]]
                /\ rowIdx' = rowIdx + 1
                /\ rrPc' = "loop"
                /\ rrError' = NoError
           ELSE /\ rrPc' = "raised"
                /\ rrError' = a.error
                /\ UNCHANGED <<rr_bodies, rowIdx, req_resps>>
    /\ detPc' = "idle"
    /\ detId' = ""
    /\ detTries' = 0
    /\ detLog' = << >>
    /\ reqCalls' = 0
    /\ respCalls' = 0
    /\ detRequest' = None
    /\ detResult' = None
    /\ detError' = NoError
    /\ detSleep' = None
    /\ detFetched' = << >>
    /\ detLast' = "returned"
    /\ UNCHANGED <<req_logs, rrResult, logVars, envVars>>

\* The rest of the loop body once request_response_reqs has returned: the two
\* json.loads, the error fields and rr_bodies.append; a KeyError leaves
\* request_response_bodies.
RRAssemble ==
    /\ rrPc = "fetching"
    /\ detPc = "done"
    /\ LET a == Assemble(req_logs[rowIdx],
                         JsonLoads(detResult[1].request),
                         JsonLoads(detResult[1].response))
       IN  IF a.ok
           THEN /\ rr_bodies' = Append(rr_bodies, a.record[1])
                /\ req_resps' = Append(req_resps, detResult[1])
                /\ rowIdx' = rowIdx + 1
                /\ rrPc' = "loop"
                /\ rrError' = NoError
           ELSE /\ rrPc' = "raised"
                /\ rrError' = a.error
                /\ UNCHANGED <<rr_bodies, rowIdx, req_resps>>
    /\ detPc' = "idle"
    /\ detId' = ""
    /\ detTries' = 0
    /\ detLog' = << >>
    /\ reqCalls' = 0
    /\ respCalls' = 0
    /\ detRequest' = None
    /\ detResult' = None
    /\ detError' = NoError
    /\ detSleep' = None
    /\ detFetched' = << >>
    /\ detLast' = "returned"
    /\ UNCHANGED <<req_logs, rrResult, logVars, envVars>>

\* The exception caught and the entry skipped.
RRRaise_Skip ==
    /\ rrPc = "fetching"
    /\ detPc = "raised"
    /\ rrPc' = "loop"
    /\ rowIdx' = rowIdx + 1
    /\ rrError' = detError
    /\ detLast' = "raised"
    /\ UNCHANGED <<req_logs, rr_bodies, rrResult, req_resps, detVars, logVars, envVars>>

\* An exception of request_response_reqs is not caught by the loop.
RRRaise ==
    /\ rrPc = "fetching"
    /\ detPc = "raised"
    /\ rrPc' = "raised"
    /\ rrError' = detError
    /\ detLast' = "raised"
    /\ UNCHANGED <<req_logs, rowIdx, rr_bodies, rrResult, req_resps, detVars, logVars, envVars>>

\* return rr_bodies
RRReturn ==
    /\ rrPc = "loop"
    /\ rowIdx > Len(req_logs)
    /\ rrPc' = "done"
    /\ rrResult' = Some(rr_bodies)
    /\ UNCHANGED <<req_logs, rowIdx, rr_bodies, rrError, req_resps, detLast>>
    /\ UNCHANGED <<detVars, logVars, envVars>>

(* --------------------------- the notebook ----------------------------- *)

\* correlation_id = str(uuid.uuid4()); the API factory is built with it.
GenerateCorrelationId ==
    /\ cell = "setup"
    /\ correlation_id' \in Uuids
    /\ cell' = "quotes"
    /\ UNCHANGED <<store, bodyStore, calls, tasks, logVars, rrVars, detVars>>

\* A call made through the API factory: the service records it in the
\* request log with the operation, the correlation identifier the factory
\* attached, and its bodies.
OriginatingCall(row, operation, request, response) ==
    /\ store' = store \cup { [row |-> row, operation |-> operation,
                               correlation |-> correlation_id] }
    /\ bodyStore' = (row.id :> [request |-> {request}, response |-> {response}])
                       @@ bodyStore
    /\ calls' = calls \cup { [id |-> row.id, operation |-> operation,
                               correlation |-> correlation_id] }
    /\ UNCHANGED <<correlation_id, tasks, logVars, rrVars, detVars>>

\* quotes_api.upsert_quotes(...)
UpsertQuotes ==
    /\ cell = "quotes"
    /\ OriginatingCall(QuotesEntry, QuotesOperation,
                       << <<"quote", "JPY/GBP">> >>, << <<"values", "quotes">> >>)
    /\ cell' = "valuation1"

\* The valuation reported in JPY: it succeeds.
ValuationJPY ==
    /\ cell = "valuation1"
    /\ OriginatingCall(EntryById("r1"), ValuationOperation,
                       ValuationRequest("JPY"), ValuationData)
    /\ cell' = "valuation2"

\* The valuation reported in AUD: the service answers 400, the ApiException
\* is caught and printed.
ValuationAUD ==
    /\ cell = "valuation2"
    /\ OriginatingCall(EntryById("r2"), ValuationOperation,
                       ValuationRequest("AUD"), ValuationError)
    /\ cell' = "logs"

\* i_response = insights_log_requests("GetValuationOfWeightedInstruments", 5, 0)
RunLogsCell ==
    /\ cell = "logs"
    /\ logPc = "idle"
    /\ LogInvoke

\* request_bodies_df = pd.DataFrame(request_response_bodies(i_response)): the
\* call of request_response_bodies, once insights_log_requests has returned.
\* Of the finished invocation i_response is kept, its locals and the record
\* of its calls are gone.
RunBodiesCell ==
    /\ cell = "logs"
    /\ logPc = "done"
    /\ cell' = "bodies"
    /\ rrPc' = "loop"
    /\ req_logs' = logResult[1]
    /\ rowIdx' = 1
    /\ rr_bodies' = << >>
    /\ rrResult' = None
    /\ rrError' = NoError
    /\ req_resps' = << >>
    /\ logTries' = 0
    /\ logCalls' = << >>
    /\ logNow' = 0
    /\ logFirstFilter' = None
    /\ logSleep' = None
    /\ logFilter' = None
    /\ UNCHANGED <<logPc, logResult, logError, logPrev, detLast>>
    /\ UNCHANGED <<store, bodyStore, correlation_id, calls, tasks, detVars>>

(* ------------- request_response_reqs in tasks side by side ------------- *)

\* One count of tries for all the tasks.
TaskTries_Shared(t) == tasks[1].tries + tasks[2].tries

\* tries is a local of backoff's retry function: every call has its own.
TaskTries(t) == tasks[t].tries

\* A call request_response_reqs(id) about to make its first attempt.
TaskStart(id) ==
    [pc |-> "request", id |-> id, tries |-> 0, log |-> << >>,
     request |-> None, result |-> None, error |-> NoError, sleep |-> None]

\* What the call of task t becomes when attempt number n ends in exception e:
\* as in DetHandle.
TaskFailed(t, n, e) ==
    IF DetRetryable(e) /\ ~DetGiveUp(n)
    THEN { [tasks[t] EXCEPT !.pc = "request", !.tries = n, !.log = Append(@, e),
                            !.request = None,
                            !.sleep = Some([value |-> ExpoValue(n), ticks |-> k])] :
             k \in FullJitter(ExpoValue(n)) }
    ELSE { [tasks[t] EXCEPT !.pc = "raised", !.tries = n, !.log = Append(@, e),
                            !.request = None, !.error = e, !.sleep = None] }

\* Task t starts an attempt: tries += 1 and request = get_request(id).
TaskGetRequest(t) ==
    /\ tasks[t].pc = "request"
    /\ \E o \in GetOutcomes(tasks[t].id, StoredRequests(tasks[t].id)) :
        \E next \in IF o.kind = "ok"
                     THEN { [tasks[t] EXCEPT !.pc = "response",
                                             !.tries = TaskTries(t) + 1,
                                             !.request = Some(o.doc),
                                             !.sleep = None] }
                     ELSE TaskFailed(t, TaskTries(t) + 1, o.error) :
            tasks' = [tasks EXCEPT ![t] = next]
    /\ UNCHANGED <<store, bodyStore, correlation_id, cell, calls,
                   logVars, rrVars, detVars>>

\* Task t goes on: response = get_response(id) and return (request, response).
TaskGetResponse(t) ==
    /\ tasks[t].pc = "response"
    /\ \E o \in GetOutcomes(tasks[t].id, StoredResponses(tasks[t].id)) :
        \E next \in IF o.kind = "ok"
                     THEN { [tasks[t] EXCEPT !.pc = "done",
                                             !.log = Append(@, AttemptOk),
                                             !.result = Some(DetReturn(tasks[t].request[1], o.doc))] }
                     ELSE TaskFailed(t, TaskTries(t), o.error) :
            tasks' = [tasks EXCEPT ![t] = next]
    /\ UNCHANGED <<store, bodyStore, correlation_id, cell, calls,
                   logVars, rrVars, detVars>>

(* --------------------------- specifications --------------------------- *)

\* The calls of this session that the request log st records.
CallsOf(st) ==
    { [id |-> e.row.id, operation |-> e.operation, correlation |-> e.correlation] :
        e \in {x \in st : x.correlation = correlation_id} }

\* A session whose calls have been made: the request log holds StoreUniverse
\* and the service may hold any body.
EnvGiven(c) ==
    /\ correlation_id = "uuid-1"
    /\ store = StoreUniverse
    /\ bodyStore = AnyBodies
    /\ calls = CallsOf(store)
    /\ cell = c
    /\ tasks = << >>

\* insights_log_requests against every behaviour of the log search.
InitLogs == LogIdle /\ RRIdle /\ DetIdle /\ EnvGiven("logs")

NextLogs == LogInvoke \/ LogAttempt

SpecLogs == InitLogs /\ [][NextLogs]_vars

\* request_response_bodies(req_logs) for every list of Log Entries of length
\* at most MaxRows, against every behaviour of the detail endpoints.
InitBodies ==
    /\ LogIdle
    /\ EnvGiven("bodies")
    /\ DetIdle
    /\ rrPc = "loop"
    /\ req_logs \in SeqsUpTo(LogEntries, MaxRows)
    /\ rowIdx = 1
    /\ rr_bodies = << >>
    /\ rrResult = None
    /\ rrError = NoError
    /\ req_resps = << >>
    /\ detLast = "none"

NextBodies ==
    \/ RRFetch
    \/ DetGetRequest
    \/ DetGetResponse
    \/ RRAssemble
    \/ RRRaise
    \/ RRReturn

SpecBodies == InitBodies /\ [][NextBodies]_vars

\* The notebook from its first cell: the correlation identifier, the calls
\* that are logged, the log search and the assembly, on a request log that
\* already holds a valuation of another session.
ForeignEntries ==
    { [row |-> EntryById("r3"), operation |-> ValuationOperation,
       correlation |-> "other-session"] }

InitSession ==
    /\ LogIdle /\ RRIdle /\ DetIdle
    /\ cell = "setup"
    /\ correlation_id = ""
    /\ store = ForeignEntries
    /\ bodyStore = [id \in {"r3"} |-> AnyBodies[id]]
    /\ calls = {}
    /\ tasks = << >>

NextSession ==
    \/ GenerateCorrelationId
    \/ UpsertQuotes
    \/ ValuationJPY
    \/ ValuationAUD
    \/ RunLogsCell
    \/ LogAttempt
    \/ RunBodiesCell
    \/ RRFetch
    \/ DetGetRequest
    \/ DetGetResponse
    \/ RRAssemble
    \/ RRRaise
    \/ RRReturn

SpecSession == InitSession /\ [][NextSession]_vars

\* The notebook when every cell is run, every call of the service is
\* answered and every sleep ends.
FairSession == SpecSession /\ WF_vars(NextSession)

\* The cell of line 517 run again once its call has returned or raised:
\* another invocation of insights_log_requests in the same session.
RerunLogsCell ==
    /\ cell = "logs"
    /\ logPc \in {"done", "raised"}
    /\ LogInvoke

\* The cell of line 578 run again once its call has returned or raised:
\* request_response_bodies starts over on the same i_response, and with it
\* request_response_reqs is called again for every row.
RerunBodiesCell ==
    /\ cell = "bodies"
    /\ rrPc \in {"done", "raised"}
    /\ rrPc' = "loop"
    /\ rowIdx' = 1
    /\ rr_bodies' = << >>
    /\ rrResult' = None
    /\ rrError' = NoError
    /\ req_resps' = << >>
    /\ UNCHANGED <<req_logs, detLast, detVars, logVars, envVars>>

\* The session in which the two querying cells may be run more than once.
NextRerun ==
    \/ NextSession
    \/ RerunLogsCell
    \/ RerunBodiesCell

SpecRerun == InitSession /\ [][NextRerun]_vars

\* The bodies the service holds of the two valuations of the notebook.
ValuationBodies ==
    ("r1" :> [request |-> {ValuationRequest("JPY")}, response |-> {ValuationData}])
    @@ ("r2" :> [request |-> {ValuationRequest("AUD")}, response |-> {ValuationError}])

\* request_response_reqs called for the two valuations by two tasks that run
\* side by side, in every interleaving of their calls of the service.
InitConcurrent ==
    /\ LogIdle /\ RRIdle /\ DetIdle
    /\ correlation_id = "uuid-1"
    /\ store = StoreUniverse
    /\ bodyStore = ValuationBodies
    /\ calls = CallsOf(store)
    /\ cell = "bodies"
    /\ tasks = <<TaskStart("r1"), TaskStart("r2")>>

NextConcurrent ==
    \/ \E t \in DOMAIN tasks : TaskGetRequest(t)
    \/ \E t \in DOMAIN tasks : TaskGetResponse(t)

SpecConcurrent == InitConcurrent /\ [][NextConcurrent]_vars

(* ------------------- claims: insights_log_requests -------------------- *)

\* A list_request_logs call that returned at least the expected count, and
\* one that returned fewer.
FullCount(r) == r.kind = "ok" /\ Len(r.values) >= ExpectedMinimumCount
ShortCount(r) == r.kind = "ok" /\ Len(r.values) < ExpectedMinimumCount

\* C1: when the first k calls of an invocation returned fewer than
\* ExpectedMinimumCount entries and call k+1 returned at least that many
\* (k < LogMaxTries), call k+1 is the last call of the invocation (k+1 calls
\* in all) and the invocation has returned the entries of call k+1.
C1_ReturnsAtFirstFullCount ==
    \A n \in DOMAIN logCalls :
        ( /\ FullCount(logCalls[n])
          /\ \A i \in 1..(n - 1) : ShortCount(logCalls[i]) )
        => /\ n <= LogMaxTries
           /\ Len(logCalls) = n
           /\ logTries = n
           /\ logPc = "done"
           /\ logError = NoError
           /\ logResult = Some(logCalls[n].values)

\* C1 witness: four short answers, then more than the expected count on the
\* last attempt of the budget.
C1_Witness ==
    /\ logPc = "done"
    /\ Len(logCalls) = LogMaxTries
    /\ \A i \in 1..(LogMaxTries - 1) : ShortCount(logCalls[i])
    /\ Len(logCalls[LogMaxTries].values) > ExpectedMinimumCount
    /\ logResult = Some(logCalls[LogMaxTries].values)

C3_FailureRaisedAtOnce ==
    \A n \in DOMAIN logCalls :
        /\ logCalls[n].kind = "raise"
             => /\ n = Len(logCalls)
                /\ logPc = "raised"
                /\ logError = logCalls[n].error
                /\ logResult = None
        /\ n < Len(logCalls) => ShortCount(logCalls[n])

\* C3 witness: the third call fails with an ApiException while two attempts
\* of the budget are left.
C3_Witness ==
    /\ logPc = "raised"
    /\ Len(logCalls) = 3
    /\ logTries = 3
    /\ logError = ApiException(500)

(* ------------------- claims: request_response_reqs -------------------- *)

\* C4: when the first n attempts of an invocation ended in ApiException 404
\* and attempt n+1 got both bodies (n < DetMaxTries), attempt n+1 is the last
\* (n+1 get_request calls) and the pair returned is the two bodies that
\* attempt fetched.
C4_ReturnsAtFirstSuccess ==
    \A n \in DOMAIN detLog :
        ( /\ detLog[n] = AttemptOk
          /\ \A i \in 1..(n - 1) : detLog[i] = ApiException(404) )
        => /\ n <= DetMaxTries
           /\ Len(detLog) = n
           /\ detTries = n
           /\ reqCalls = n
           /\ detPc = "done"
           /\ detError = NoError
           /\ Len(detFetched) = 2
           /\ detResult = Some([request |-> detFetched[1], response |-> detFetched[2]])

\* C4 witness: not found four times, success on the last attempt of the
\* budget.
C4_Witness ==
    /\ detPc = "done"
    /\ Len(detLog) = DetMaxTries
    /\ \A i \in 1..(DetMaxTries - 1) : detLog[i] = ApiException(404)
    /\ detLog[DetMaxTries] = AttemptOk

\* Every attempt of the invocation so far ended in ApiException 404.
AllNotFound == \A i \in DOMAIN detLog : detLog[i] = ApiException(404)

ClientError(row) == row.http_status_code \in 400..499

\* The loop body failed after request_response_reqs had returned: RRAssemble
\* is the only step that raises with the frame of request_response_reqs gone.
AssembleFailed == rrPc = "raised" /\ detPc = "idle"

\* C7 as stated: the error name and the error details of a record are both
\* populated exactly when the status of its Log Entry is a client error
\* (400..499), and both None for every other status.
C7_Original ==
    \A i \in DOMAIN rr_bodies :
        /\ (rr_bodies[i].error /= None /\ rr_bodies[i].error_details /= None)
             <=> ClientError(req_logs[i])
        /\ ~ClientError(req_logs[i])
             => (rr_bodies[i].error = None /\ rr_bodies[i].error_details = None)

\* C8: the record of a Log Entry with status 200 has error = None and
\* error_details = None whatever the response body holds, and the loop body
\* never fails on such an entry.
C8_Status200NoErrorFields ==
    /\ \A i \in DOMAIN rr_bodies :
         req_logs[i].http_status_code = 200
           => /\ rr_bodies[i].error = None
              /\ rr_bodies[i].error_details = None
              /\ rr_bodies[i].response_body = JsonLoads(req_resps[i].response)
    /\ AssembleFailed => req_logs[rowIdx].http_status_code /= 200

\* C8 witness: two records of status 200, the response body of the first
\* with name and errorDetails, that of the second without them.
C8_Witness ==
    /\ Len(rr_bodies) = 2
    /\ req_logs[1].http_status_code = 200
    /\ req_logs[2].http_status_code = 200
    /\ {"name", "errorDetails"} \subseteq DOMAIN rr_bodies[1].response_body
    /\ {"name", "errorDetails"} \cap DOMAIN rr_bodies[2].response_body = {}
    /\ rr_bodies[1].error = None
    /\ rr_bodies[2].error_details = None

\* C9: the record of a Log Entry with status 400 whose response body has a
\* name and an errorDetails sequence has that name as error and that sequence
\* (same length, same order) as error_details, and the id, timestamp and
\* outcome of the Log Entry; name "InvalidParameterValue" with one detail
\* gives error "InvalidParameterValue" and error_details of length 1.
C9_Status400ErrorFields ==
    \A i \in DOMAIN rr_bodies :
        LET body == JsonLoads(req_resps[i].response)
            rec == rr_bodies[i]
        IN  /\ ( /\ req_logs[i].http_status_code = 400
                 /\ "name" \in DOMAIN body
                 /\ "errorDetails" \in DOMAIN body )
              => /\ rec.error = Some(body["name"])
                 /\ rec.error_details = Some(body["errorDetails"])
                 /\ Len(rec.error_details[1]) = Len(body["errorDetails"])
                 /\ \A k \in DOMAIN body["errorDetails"] :
                      rec.error_details[1][k] = body["errorDetails"][k]
                 /\ rec.id = req_logs[i].id
                 /\ rec.timestamp = req_logs[i].timestamp
                 /\ rec.outcome = req_logs[i].outcome
            /\ ( /\ req_logs[i].http_status_code = 400
                 /\ req_resps[i].response =
                      << <<"name", "InvalidParameterValue">>,
                         <<"errorDetails", <<Detail1>> >> >> )
              => /\ rec.error = Some("InvalidParameterValue")
                 /\ Len(rec.error_details[1]) = 1

\* C9 witness: a status 400 record with InvalidParameterValue and one
\* detail, and one with two details in the order of the body.
C9_Witness ==
    /\ Len(rr_bodies) = 2
    /\ req_logs[1].http_status_code = 400
    /\ req_logs[2].http_status_code = 400
    /\ rr_bodies[1].error = Some("InvalidParameterValue")
    /\ rr_bodies[1].error_details = Some(<<Detail1>>)
    /\ rr_bodies[2].error = Some("InvalidParameterType")
    /\ rr_bodies[2].error_details = Some(<<Detail1, Detail2>>)
    /\ rr_bodies[2].id = "r2"

\* C10 as stated: when the loop body fails on a response body it fails with
\* MalformedErrorBody, and no record of an entry with an error status (400 or
\* above) has only one, or neither, of its error fields populated.
C10_Original ==
    /\ AssembleFailed => rrError.type = "MalformedErrorBody"
    /\ \A i \in DOMAIN rr_bodies :
         req_logs[i].http_status_code >= 400
           => (rr_bodies[i].error /= None /\ rr_bodies[i].error_details /= None)

(* ------------- claims: the outcome of insights_log_requests ------------ *)

\* The entries of the request log that the filter selects, indexed or not.
MatchingEntries(filter) == {x \in store : Matches(filter, x)}

\* C11: exhaustion of the retry budget is reported: an ordinary returned
\* collection of fewer than ExpectedMinimumCount entries means that the query
\* genuinely has that few results, never that the budget ran out while
\* entries the filter selects were not indexed yet.
C11_Original ==
    ( /\ logPc = "done"
      /\ logError = NoError
      /\ logResult /= None
      /\ Len(logResult[1]) < ExpectedMinimumCount )
    => Cardinality(MatchingEntries(logFilter[1])) < ExpectedMinimumCount

\* The width of the time window, in seconds.
WindowSeconds == (TimestampDiffLower - TimestampDiffUpper) * SecondsPerMinute

Ids(rows) == [i \in DOMAIN rows |-> rows[i].id]

\* The Result Record the notebook should show for the Log Entry of the
\* valuation in JPY (r1) and for that of the valuation in AUD (r2).
SessionRecord(row) ==
    IF row.id = "r1"
    THEN [id |-> "r1", timestamp |-> row.timestamp, outcome |-> "Success",
          error |-> None, error_details |-> None,
          request_body |-> [reportCurrency |-> "JPY"],
          response_body |-> [data |-> "values"]]
    ELSE [id |-> "r2", timestamp |-> row.timestamp, outcome |-> "Failure",
          error |-> Some("InvalidParameterValue"),
          error_details |-> Some(<<Detail1>>),
          request_body |-> [reportCurrency |-> "AUD"],
          response_body |-> [name |-> "InvalidParameterValue",
                             errorDetails |-> <<Detail1>>]]

Logged(row) == {e \in store : e.row = row}

\* What C13 says of a state.
C13_State ==
    /\ \A c \in calls : c.correlation = correlation_id /\ c.correlation \in Uuids
    /\ \A f \in {logFilter, logFirstFilter} :
         f /= None => f[1].correlation = correlation_id
    /\ logPc = "done"
         => \A i \in DOMAIN logResult[1] :
              /\ Logged(logResult[1][i]) /= {}
              /\ \A e \in Logged(logResult[1][i]) :
                   /\ e.correlation = correlation_id
                   /\ e.operation = ValuationOperation
                   /\ [id |-> e.row.id, operation |-> e.operation,
                       correlation |-> e.correlation] \in calls
                   /\ logFilter /= None
                        => /\ e.row.timestamp > logFilter[1].lower
                           /\ e.row.timestamp < logFilter[1].upper
                           /\ logFilter[1].operation = e.operation
    /\ cell = "bodies"
         => \A i \in DOMAIN rr_bodies :
              /\ \E k \in DOMAIN logResult[1] : logResult[1][k].id = rr_bodies[i].id
              /\ rr_bodies[i].id \notin {"r3", "q1"}

\* C13: the correlation identifier is generated once and never changes; every
\* call the session made carried it and every filter of the log search names
\* it; every Log Entry insights_log_requests returns, and so every Result
\* Record, is the entry of a call of this session with the requested
\* operation and a timestamp inside the window of the filter that was sent,
\* never an entry of another session or of another operation.
C13_OnlyThisSession ==
    /\ []C13_State
    /\ [][correlation_id /= "" => correlation_id' = correlation_id]_vars

\* Both valuations of the session were returned from a request log that also
\* holds a valuation of another session and the upsert of quotes.
C13_Witness ==
    /\ cell = "logs"
    /\ logPc = "done"
    /\ correlation_id = "uuid-2"
    /\ Len(logResult[1]) = 2
    /\ \E e \in store : e.correlation = "other-session" /\ e.operation = ValuationOperation
    /\ \E e \in store : e.correlation = correlation_id /\ e.operation = QuotesOperation

\* The notebook has come to its end: insights_log_requests has raised, or
\* request_response_bodies has returned or raised.
SessionEnded == logPc = "raised" \/ rrPc \in {"done", "raised"}

\* No invocation has made more than max_tries attempts, and one that has made
\* max_tries attempts is not about to make another.
C14_Ceiling ==
    /\ logTries <= LogMaxTries /\ Len(logCalls) <= LogMaxTries
    /\ (logTries = LogMaxTries /\ cell = "logs") => logPc \in {"done", "raised"}
    /\ detTries <= DetMaxTries /\ Len(detLog) <= DetMaxTries
    /\ reqCalls <= DetMaxTries /\ respCalls <= DetMaxTries
    /\ reqCalls = detTries /\ respCalls <= reqCalls
    /\ (detTries = DetMaxTries /\ detPc /= "response") => detPc \in {"done", "raised"}
    /\ rowIdx <= Len(req_logs) + 1

C15_State ==
    /\ reqCalls = detTries
    /\ respCalls <= reqCalls
    /\ detPc = "request" => (detRequest = None /\ detFetched = << >>)
    /\ detPc = "response"
         => /\ detRequest /= None
            /\ detFetched = <<detRequest[1]>>
            /\ respCalls < reqCalls
    /\ detPc = "done"
         => /\ Len(detFetched) = 2
            /\ detResult = Some([request |-> detFetched[1], response |-> detFetched[2]])

\* What C15 says of a step: get_response is called only in an attempt whose
\* get_request succeeded, and after a failure of either call the next call,
\* if there is one, is get_request.
C15_Step ==
    /\ respCalls' > respCalls
         => /\ detPc = "response"
            /\ detFetched = <<detRequest[1]>>
            /\ reqCalls' = reqCalls
    /\ (Len(detLog') > Len(detLog) /\ detLog'[Len(detLog')] /= AttemptOk)
         => /\ detPc' \in {"request", "raised"}
            /\ detRequest' = None
            /\ detFetched' = << >>
    /\ (detPc = "request" /\ detPc' /= "request" /\ rrPc' = rrPc)
         => reqCalls' = reqCalls + 1

\* C15: request_response_reqs retries the pair as a whole: after a failure
\* of get_response the next attempt calls get_request again first,
\* get_response is never called in an attempt whose get_request failed, and
\* the pair returned is made of two bodies fetched in the same attempt.
C15_PairAsAWhole == []C15_State /\ [][C15_Step]_vars

\* get_response failed in four attempts after get_request had succeeded, and
\* the fifth attempt returned the pair it fetched.
C15_Witness ==
    /\ detPc = "done"
    /\ reqCalls = DetMaxTries
    /\ respCalls = DetMaxTries
    /\ detResult = Some([request |-> ValuationRequest("AUD"), response |-> ValuationError])

(* --------------- claims: the output of request_response_bodies --------- *)

\* C16: the records built so far are those of the first entries of the list,
\* one for each and in their order, and when request_response_bodies
\* completes its output holds exactly one record for each entry of the list,
\* in the order of the list: the ids of the records are the ids of the
\* entries, an id that occurs twice in the list occurs twice in the output,
\* and a list of no or one entry gives an output of that length.
C16_OneRecordPerEntryInOrder ==
    /\ Len(rr_bodies) <= Len(req_logs)
    /\ \A i \in DOMAIN rr_bodies :
         /\ rr_bodies[i].id = req_logs[i].id
         /\ rr_bodies[i].timestamp = req_logs[i].timestamp
         /\ rr_bodies[i].outcome = req_logs[i].outcome
    /\ rrPc = "done"
         => /\ rrResult = Some(rr_bodies)
            /\ Len(rrResult[1]) = Len(req_logs)
            /\ Ids(rrResult[1]) = Ids(req_logs)

\* The list held the same entry twice and the output holds its record twice.
C16_Witness ==
    /\ rrPc = "done"
    /\ Ids(req_logs) = <<"r1", "r1">>
    /\ Ids(rrResult[1]) = <<"r1", "r1">>

\* What C19 says of a state: request_response_bodies that has raised has
\* returned nothing, its error is the one of request_response_reqs or the
\* KeyError of the loop body, and the entry it stopped at is the failing one.
C19_State ==
    rrPc = "raised"
    => /\ rrResult = None
       /\ rrError /= NoError
       /\ detPc = "raised" => (rrError = detError /\ detId = req_logs[rowIdx].id)
       /\ AssembleFailed => rrError \in {KeyError("name"), KeyError("errorDetails")}
       /\ rowIdx <= Len(req_logs)
       /\ Len(rr_bodies) = rowIdx - 1

\* What C19 says of a step: a failure of request_response_reqs is followed by
\* nothing but the failure of request_response_bodies, and after that failure
\* nothing is done: no body is fetched, no record is built or returned.
C19_Step ==
    /\ rrPc /= "raised"
    /\ detPc = "raised"
         => /\ rrPc' = "raised"
            /\ rrError' = detError
            /\ UNCHANGED <<rr_bodies, rrResult, rowIdx, detVars>>

\* C19: when request_response_reqs fails for an entry (its attempts used up,
\* or another error) or the loop body fails for it, request_response_bodies
\* fails with that error: it returns no record, not even those built for the
\* entries before, and fetches nothing for the entries after.
C19_FailsAsAWhole == []C19_State /\ [][C19_Step]_vars

\* The record of the first entry was built, the loop body failed on the
\* second entry, and nothing was returned.
C19_Witness ==
    /\ AssembleFailed
    /\ Len(req_logs) = 2
    /\ rowIdx = 2
    /\ Len(rr_bodies) = 1
    /\ rrResult = None
    /\ rrError = KeyError("name")

(* ---------------------- claims: the backoff delays --------------------- *)

\* The sleep sl is the one that follows the failed attempt number tries of a
\* budget of max: its value is 2^(tries-1) seconds (1, 2, 4, 8), and the time
\* slept lies between nothing and that value.
BackoffSleep(sl, tries, max) ==
    /\ sl /= None
    /\ tries < max
    /\ sl[1].value = 2 ^ (tries - 1)
    /\ sl[1].value \in {1, 2, 4, 8}
    /\ sl[1].ticks >= 0
    /\ sl[1].ticks <= sl[1].value * TicksPerSecond

\* C20: in both loops the sleep before attempt i+1 is at most 2^(i-1) seconds
\* (1, 2, 4, 8), the value doubling at every attempt and the jitter never
\* adding to it; there is no sleep before the first attempt, after an attempt
\* that succeeded, or after the last attempt of the budget.
C20_ExponentialBackoff ==
    /\ (logPc = "call" /\ logTries >= 1) => BackoffSleep(logSleep, logTries, LogMaxTries)
    /\ (logPc /= "call" \/ logTries = 0) => logSleep = None
    /\ (detPc = "request" /\ detTries >= 1) => BackoffSleep(detSleep, detTries, DetMaxTries)
    /\ (detPc /= "request" \/ detTries = 0) => detSleep = None

\* The fourth attempt to fetch the bodies of an entry found by the log search
\* has failed, and the whole 8 seconds are slept before the fifth.
C20_Witness ==
    /\ cell = "bodies"
    /\ detPc = "request"
    /\ detTries = 4
    /\ detSleep = Some([value |-> 8, ticks |-> 8 * TicksPerSecond])

(* ------------- claims: request_response_reqs side by side -------------- *)

\* The outcome of task t is the outcome of request_response_reqs run alone
\* against the answers the task received: it has made at most max_tries
\* attempts, all counted in its own tries; it has returned when an attempt
\* got both bodies after none but ApiExceptions, and then the bodies of its
\* own identifier; it has raised an ApiException only when it was its own
\* attempt number max_tries, and another exception at once.
AsRunAlone(t) ==
    LET k == tasks[t] IN
    /\ k.tries <= DetMaxTries
    /\ k.tries = Len(k.log) + (IF k.pc = "response" THEN 1 ELSE 0)
    /\ \A i \in 1..(Len(k.log) - 1) : DetRetryable(k.log[i])
    /\ k.pc \in {"request", "response"}
         => (\A i \in DOMAIN k.log : DetRetryable(k.log[i])) /\ Len(k.log) < DetMaxTries
    /\ k.pc = "done"
         => /\ k.log[Len(k.log)] = AttemptOk
            /\ k.error = NoError
            /\ k.result = Some([request |-> CHOOSE d \in bodyStore[k.id].request : TRUE,
                                response |-> CHOOSE d \in bodyStore[k.id].response : TRUE])
    /\ k.pc = "raised"
         => /\ k.error = k.log[Len(k.log)]
            /\ k.error /= AttemptOk
            /\ k.result = None
            /\ DetRetryable(k.error) => Len(k.log) = DetMaxTries

\* C18: the attempts one call of request_response_reqs spends take nothing
\* from the budget of another, a step of one call changes nothing of the
\* other, and run side by side in any interleaving every call has the outcome
\* it has when run alone.
C18_IsolatedPerEntry ==
    /\ [](\A t \in DOMAIN tasks : AsRunAlone(t))
    /\ [][\A t, u \in DOMAIN tasks :
            (t /= u /\ tasks'[t] /= tasks[t]) => tasks'[u] = tasks[u]]_vars

\* Side by side the first call has given up at its fifth attempt and the
\* second has returned the bodies of its identifier at its own fifth.
C18_Witness ==
    /\ Len(tasks) = 2
    /\ tasks[1].pc = "raised" /\ tasks[1].tries = DetMaxTries
    /\ tasks[2].pc = "done" /\ tasks[2].tries = DetMaxTries
    /\ tasks[2].result = Some([request |-> ValuationRequest("AUD"), response |-> ValuationError])

(* ------------- claims: read-only calls, no state kept ------------------ *)

\* A step in which insights_log_requests or request_response_reqs calls the
\* service: list_request_logs, get_request or get_response.
C21_Attempt ==
    \/ logPc = "call" /\ logTries' = logTries + 1
    \/ reqCalls' = reqCalls + 1
    \/ respCalls' = respCalls + 1

\* What C21 says of a step: a call of the service by either function leaves
\* the request log and the bodies as they were, and a step that starts an
\* invocation starts it with no attempt counted, nothing slept and nothing
\* left of the invocation before it.
C21_Step ==
    /\ C21_Attempt => store' = store /\ bodyStore' = bodyStore
    /\ (logPc /= "call" /\ logPc' = "call")
         => /\ logTries' = 0
            /\ logCalls' = << >>
            /\ logSleep' = None
            /\ logFilter' = None
    /\ (detPc \notin {"request", "response"} /\ detPc' = "request")
         => /\ detTries' = 0
            /\ detLog' = << >>
            /\ reqCalls' = 0
            /\ respCalls' = 0
            /\ detSleep' = None
            /\ detRequest' = None

\* What C21 says of a state, however the invocation before ended: the
\* counter counts the attempts of the running invocation and no others, so
\* that every invocation has its whole budget, and the sleep after its first
\* failed attempt is the initial delay of one second.
C21_State ==
    /\ logTries = Len(logCalls)
    /\ logTries <= LogMaxTries
    /\ (logPc = "call" /\ logTries = 0) => logSleep = None
    /\ (logPc = "call" /\ logTries = 1)
         => logSleep /= None /\ logSleep[1].value = ExpoFactor
    /\ detTries = reqCalls
    /\ detTries <= DetMaxTries
    /\ (detPc = "request" /\ detTries = 0) => detSleep = None
    /\ (detPc = "request" /\ detTries = 1)
         => detSleep /= None /\ detSleep[1].value = ExpoFactor

\* C21: insights_log_requests and request_response_reqs only read: no attempt
\* of either changes the request log or the bodies the service holds, and
\* neither keeps state from one invocation to the next, every invocation
\* starting with a fresh attempt counter and the initial delay whatever the
\* outcome of the invocations before it.
C21_ReadOnlyNoStateKept == []C21_State /\ [][C21_Step]_vars

\* The log search was run again after an invocation that used up its attempts
\* on short lists, and found both entries; the bodies were fetched again after
\* request_response_reqs had raised, and its new invocation for the first
\* entry succeeded at the last attempt of a whole budget.
C21_Witness ==
    /\ cell = "bodies"
    /\ logPrev = "short"
    /\ Len(req_logs) = ExpectedMinimumCount
    /\ detLast = "raised"
    /\ rowIdx = 1
    /\ detPc = "done"
    /\ detTries = DetMaxTries
    /\ detResult /= None

====
